---- MODULE Spec2Model ----
(***************************************************************************)
(* The four request handlers of the repository (final_lambda.py,           *)
(* lambda-slack.py, lambda.py, claude_final_prompt.py) as one state        *)
(* machine.  One execution context runs one handler file; it serves a      *)
(* sequence of invocations, and the module-level knowledge_base_cache is   *)
(* the only state that survives from one invocation to the next.           *)
(*                                                                         *)
(* Text is a sequence of one-character strings (and of literal template    *)
(* pieces), so that lower-casing, substring search and concatenation are   *)
(* computed, not assumed.                                                  *)
(***************************************************************************)
EXTENDS Integers, Sequences, FiniteSets, TLC

VARIABLES
    handler,               \* the handler file deployed in this execution context
    pc,                    \* position of the current invocation
    invocations,           \* invocations started so far in this context
    knowledge_base_cache,  \* module-level cache: None or a list of (key, content)
    request,               \* the event of the current invocation
    user_prompt,           \* the Query (issue_description in lambda.py)
    relevant_knowledge,    \* the KnowledgeBlob
    prompt,                \* the assembled Prompt
    attempt,               \* loop variable of the retry loop (0-based)
    backoff_time,          \* current backoff duration
    response_payload,      \* accumulated generation text
    statusCode,            \* status of the returned response, 0 while none
    calls,                 \* number of calls made to each collaborator
    sleeps,                \* durations passed to time.sleep, in order
    fetched,               \* documents the store returned and decoded in this invocation
    scanned,               \* documents the relevance filter iterated over
    attemptText,           \* text fragments delivered by the attempt that succeeded
    failedAttempts,        \* attempts that ended in a service error
    outcome,               \* of generation: "None", "Success" or "Exhausted"
    s3_object,             \* the objects the result write stored, in order
    posted,                \* the texts the webhook received, in order
    faults,                \* the collaborators that raised a service error while
                           \* knowledge was gathered ("store", "retrieval"), kept
                           \* until the first generation call
    study                  \* arguments and results of the function-level specifications

vars == <<handler, pc, invocations, knowledge_base_cache, request, user_prompt,
          relevant_knowledge, prompt, attempt, backoff_time, response_payload,
          statusCode, calls, sleeps, fetched, scanned, attemptText,
          failedAttempts, outcome, s3_object, posted, faults, study>>

\* ------------------------------------------------------------------ bounds
MaxInvocations == 2
MaxDocs == 2
MaxEvents == 2
MaxStored == 3

\* ------------------------------------------------------- program constants
max_retries == 4
initial_backoff == 2

Handlers == {"final_lambda", "lambda_slack", "lambda", "claude_final_prompt"}
RetryingHandlers == {"final_lambda", "lambda_slack", "lambda"}
CachingHandlers == {"final_lambda", "lambda_slack", "lambda"}
SlackHandlers == {"final_lambda", "claude_final_prompt"}

SLACK_VERIFICATION_TOKEN == "good"

\* ------------------------------------------------------------------- text
Lower(c) == CASE c = "A" -> "a" [] c = "B" -> "b" [] OTHER -> c

LowerText(s) == [i \in 1..Len(s) |-> Lower(s[i])]

\* Python's `s in t` on strings
Contains(s, t) ==
    \E i \in 0..(Len(t) - Len(s)) : SubSeq(t, i + 1, i + Len(s)) = s

QuerySet == {<<>>, <<"A", "b">>, <<"c">>}

\* ---------------------------------------------------------- module cache
None == [is_none |-> TRUE, items |-> <<>>]

List(items) == [is_none |-> FALSE, items |-> items]

NoEvent == [shape |-> "none"]

NoStudy == [of |-> "nothing"]

NoCalls == [src_get |-> 0, list |-> 0, get |-> 0, retrieve |-> 0,
            generate |-> 0, put |-> 0, post |-> 0]

Init ==
    /\ handler \in Handlers
    /\ pc = "idle"
    /\ invocations = 0
    /\ knowledge_base_cache = None
    /\ request = NoEvent
    /\ user_prompt = <<>>
    /\ relevant_knowledge = <<>>
    /\ prompt = <<>>
    /\ attempt = 0
    /\ backoff_time = initial_backoff
    /\ response_payload = <<>>
    /\ statusCode = 0
    /\ calls = NoCalls
    /\ sleeps = <<>>
    /\ fetched = <<>>
    /\ scanned = <<>>
    /\ attemptText = <<>>
    /\ failedAttempts = 0
    /\ outcome = "None"
    /\ s3_object = <<>>
    /\ posted = <<>>
    /\ faults = {}
    /\ study = NoStudy

\* ------------------------------------------------------------ the requests
\* A chat-command request: the form-encoded body of final_lambda.py and
\* claude_final_prompt.py.  A field parse_qs does not return is "absent".
SlackEvents ==
    {e \in [has_body : BOOLEAN, token : {"absent", "good", "bad"},
            has_text : BOOLEAN, text : QuerySet, response_url : BOOLEAN] :
        /\ (~e.has_text => e.text = <<>>)
        /\ (~e.has_body => e.token = "absent" /\ ~e.has_text /\ ~e.response_url)}

TokenAcceptedAny(token) == token # "absent"

\* `if token != SLACK_VERIFICATION_TOKEN: raise ValueError`
TokenAccepted(token) == token = SLACK_VERIFICATION_TOKEN

ParseSlack(e) ==
    IF ~e.has_body \/ e.token = "absent" \/ ~e.response_url
    THEN [parse |-> "missing_field", user_prompt |-> <<>>]          \* KeyError
    ELSE IF ~TokenAccepted(e.token)
    THEN [parse |-> "bad_token", user_prompt |-> <<>>]              \* ValueError
    ELSE [parse |-> "ok", user_prompt |-> IF e.has_text THEN e.text ELSE <<>>]

\* A request of lambda-slack.py: a JSON body with a text field, or a prompt field.
ApiEvents ==
    {e \in [shape : {"body_text", "body_no_text", "body_bad_json",
                     "body_not_object", "prompt", "neither"}, text : QuerySet] :
        e.shape \notin {"body_text", "prompt"} => e.text = <<>>}

ParseApi(e) ==
    CASE e.shape = "body_text" -> [parse |-> "ok", user_prompt |-> e.text]
      [] e.shape = "prompt" -> [parse |-> "ok", user_prompt |-> e.text]
      [] e.shape = "body_no_text" -> [parse |-> "missing_field", user_prompt |-> <<>>]
      [] e.shape = "neither" -> [parse |-> "missing_field", user_prompt |-> <<>>]
      [] e.shape = "body_bad_json" -> [parse |-> "bad_json", user_prompt |-> <<>>]
      \* body['text'] on a JSON array, string, number or null: TypeError, not caught
      [] e.shape = "body_not_object" -> [parse |-> "wrong_shape", user_prompt |-> <<>>]

\* A request of lambda.py: a ticket number, and what the store holds for it.
TicketEvents ==
    {e \in [has_ticket : BOOLEAN,
            source : {"client_error", "bad_json", "not_object", "no_description",
                      "description"},
            text : QuerySet] :
        /\ (e.source # "description" => e.text = <<>>)
        /\ (~e.has_ticket => e.source = "client_error")}

ParseTicket(e) ==
    CASE ~e.has_ticket -> [parse |-> "missing_ticket", user_prompt |-> <<>>]
      [] e.has_ticket /\ e.source = "client_error" ->
            [parse |-> "source_error", user_prompt |-> <<>>]
      [] e.has_ticket /\ e.source = "bad_json" ->
            [parse |-> "source_bad_json", user_prompt |-> <<>>]
      \* issue_details.get on a JSON array: AttributeError, not caught
      [] e.has_ticket /\ e.source = "not_object" ->
            [parse |-> "source_not_object", user_prompt |-> <<>>]
      [] e.has_ticket /\ e.source = "no_description" ->
            [parse |-> "ok", user_prompt |-> <<>>]
      [] e.has_ticket /\ e.source = "description" ->
            [parse |-> "ok", user_prompt |-> e.text]

EventsFor(h) ==
    CASE h \in SlackHandlers -> SlackEvents
      [] h = "lambda_slack" -> ApiEvents
      [] h = "lambda" -> TicketEvents

ParseEvent(h, e) ==
    CASE h \in SlackHandlers -> ParseSlack(e)
      [] h = "lambda_slack" -> ParseApi(e)
      [] h = "lambda" -> ParseTicket(e)

\* the parse outcomes the handler answers with a status, and the ones that
\* leave lambda_handler as an exception
ParseStatus(p) ==
    CASE p \in {"missing_field", "bad_token", "bad_json"} -> 400
      [] p \in {"source_error", "source_bad_json"} -> 500
      [] OTHER -> 0

ParseRaises(p) == p \in {"wrong_shape", "missing_ticket", "source_not_object"}

\* Step 1 of every handler; in lambda.py it includes the fetch of the issue record.
ParseRequest ==
    /\ pc \in {"idle", "returned", "raised"}
    /\ invocations < MaxInvocations
    /\ invocations' = invocations + 1
    /\ \E e \in EventsFor(handler) :
         LET r == ParseEvent(handler, e) IN
         /\ request' = e
         /\ user_prompt' = r.user_prompt
         /\ calls' = [NoCalls EXCEPT !.src_get =
                        IF handler = "lambda" /\ r.parse # "missing_ticket" THEN 1 ELSE 0]
         /\ IF r.parse = "ok"
            THEN pc' = "gather" /\ statusCode' = 0
            ELSE IF ParseRaises(r.parse)
            THEN pc' = "raised" /\ statusCode' = 0
            ELSE pc' = "returned" /\ statusCode' = ParseStatus(r.parse)
    /\ relevant_knowledge' = <<>>
    /\ prompt' = <<>>
    /\ attempt' = 0
    /\ backoff_time' = initial_backoff
    /\ response_payload' = <<>>
    /\ sleeps' = <<>>
    /\ fetched' = <<>>
    /\ scanned' = <<>>
    /\ attemptText' = <<>>
    /\ failedAttempts' = 0
    /\ outcome' = "None"
    /\ s3_object' = <<>>
    /\ posted' = <<>>
    /\ faults' = {}
    /\ UNCHANGED <<handler, knowledge_base_cache, study>>

\* ------------------------------------------------------- the object store
\* An object is a key and the bytes it stores; "xE9" is the byte 0xE9, which
\* is not valid UTF-8 on its own and is the letter e-acute in latin-1.
DocSet ==
    {[Key |-> <<"k1">>, Body |-> <<"a", "B">>],
     [Key |-> <<"k2">>, Body |-> <<"xE9", "a">>]}

\* what list_objects_v2 can return: up to MaxDocs objects, repeats allowed
Listings == UNION {[1..n -> DocSet] : n \in 0..MaxDocs}

\* where the store raises ClientError: 0 = the list call, i = the get of the
\* i-th object, Len + 1 = nowhere
FailPoints(listing) == 0..(Len(listing) + 1)

Utf8Decodable(bytes) == \A i \in 1..Len(bytes) : bytes[i] # "xE9"

DecodeLatin1(bytes) ==
    [i \in 1..Len(bytes) |-> IF bytes[i] = "xE9" THEN "e-acute" ELSE bytes[i]]

\* Body is a read-once stream: the first read() returns the bytes, a later one b""
ReadBody(bytes, reads) == IF reads = 0 THEN bytes ELSE <<>>

\* the content one object contributes, as a list of 0 or 1 (key, content):
\* decode('utf-8'), and with `fallback` the latin-1 decoding of a second read()
DecodeObject(obj, fallback) ==
    IF Utf8Decodable(ReadBody(obj.Body, 0))
    THEN <<[Key |-> obj.Key, Content |-> ReadBody(obj.Body, 0)]>>
    ELSE IF fallback
    THEN <<[Key |-> obj.Key, Content |-> DecodeLatin1(ReadBody(obj.Body, 1))]>>
    ELSE <<>>

RECURSIVE FetchDocsAllOrNothing(_, _, _, _)
FetchDocsAllOrNothing(listing, failAt, fallback, i) ==
    IF failAt <= Len(listing) \/ i > Len(listing)
    THEN <<>>
    ELSE DecodeObject(listing[i], fallback)
            \o FetchDocsAllOrNothing(listing, failAt, fallback, i + 1)

RECURSIVE FetchDocsUntilDecodeError(_, _, _, _)
FetchDocsUntilDecodeError(listing, failAt, fallback, i) ==
    IF failAt = 0 \/ i > Len(listing) \/ i = failAt
          \/ DecodeObject(listing[i], fallback) = <<>>
    THEN <<>>
    ELSE DecodeObject(listing[i], fallback)
            \o FetchDocsUntilDecodeError(listing, failAt, fallback, i + 1)

\* the listing loop: the documents fetched and decoded before the store fails
RECURSIVE FetchDocs(_, _, _, _)
FetchDocs(listing, failAt, fallback, i) ==
    IF failAt = 0 \/ i > Len(listing) \/ i = failAt
    THEN <<>>
    ELSE DecodeObject(listing[i], fallback)
            \o FetchDocs(listing, failAt, fallback, i + 1)

GetCalls(listing, failAt) ==
    IF failAt = 0 THEN 0
    ELSE IF failAt <= Len(listing) THEN failAt ELSE Len(listing)

\* ------------------------------------------------------ relevance filter
RelevantCaseSensitive(query, doc) == Contains(query, doc.Content)

RelevantToNonEmptyQuery(query, doc) ==
    query # <<>> /\ Contains(LowerText(query), LowerText(doc.Content))

Fragment(doc) ==
    <<"\nDocument: ">> \o doc.Key \o <<"\nContent: ">> \o doc.Content \o <<"\n">>

Relevant(query, doc) == Contains(LowerText(query), LowerText(doc.Content))

RECURSIVE Filter(_, _)
Filter(query, docs) ==
    IF docs = <<>> THEN <<>>
    ELSE (IF Relevant(query, Head(docs)) THEN Fragment(Head(docs)) ELSE <<>>)
            \o Filter(query, Tail(docs))

\* the cache after the filter loop: final_lambda.py and lambda-slack.py set it
\* to None, lambda.py leaves it as it is
CacheAfterUse(h, cache) == IF h = "lambda" THEN cache ELSE None

\* the store raised ClientError during the listing loop
StoreFailed(listing, failAt) == failAt <= Len(listing)

\* Step 2 as a function of the cache, the query and what the store does: the
\* documents fetched and scanned, the blob of matches, the cache left behind and
\* the calls made.  The handlers with the module cache go to the store only when
\* the cache is None; claude_final_prompt.py has no cache and filters in the loop.
GatherKnowledge(h, cache, query, listing, failAt) ==
    IF h \in CachingHandlers
    THEN LET miss == cache.is_none
             docs == FetchDocs(listing, failAt, FALSE, 1)
             used == IF miss THEN List(docs) ELSE cache
         IN  [fetched |-> IF miss THEN docs ELSE <<>>,
              scanned |-> used.items,
              blob |-> Filter(query, used.items),
              cache |-> CacheAfterUse(h, used),
              list |-> IF miss THEN 1 ELSE 0,
              get |-> IF miss THEN GetCalls(listing, failAt) ELSE 0,
              failed |-> miss /\ StoreFailed(listing, failAt)]
    ELSE LET docs == FetchDocs(listing, failAt, TRUE, 1)
         IN  [fetched |-> docs,
              scanned |-> docs,
              blob |-> Filter(query, docs),
              cache |-> cache,
              list |-> 1,
              get |-> GetCalls(listing, failAt),
              failed |-> StoreFailed(listing, failAt)]

\* what the store can do in one invocation; with the cache filled it is not asked
StoreBehaviours(h, cache) ==
    IF h \in CachingHandlers /\ ~cache.is_none
    THEN {[listing |-> <<>>, failAt |-> 1]}
    ELSE {[listing |-> l, failAt |-> f] : <<l, f>> \in
            UNION {{l} \X FailPoints(l) : l \in Listings}}

AfterGatherSkipRetrieval(failed) == IF failed THEN "generate" ELSE "generate"

AfterGatherAbort(failed) == IF failed THEN "returned" ELSE "retrieve"

\* where the handler goes after Step 2: `except ClientError` only prints, so
\* on to the retrieval call whether or not the store failed
AfterGather(failed) == "retrieve"

Gather(h) ==
    /\ pc = "gather"
    /\ \E b \in StoreBehaviours(h, knowledge_base_cache) :
         \E r \in {GatherKnowledge(h, knowledge_base_cache, user_prompt,
                                  b.listing, b.failAt)} :
         /\ fetched' = r.fetched
         /\ scanned' = r.scanned
         /\ relevant_knowledge' = r.blob
         /\ knowledge_base_cache' = r.cache
         /\ calls' = [calls EXCEPT !.list = r.list, !.get = r.get]
         /\ faults' = IF r.failed THEN {"store"} ELSE {}
         /\ pc' = AfterGather(r.failed)
    /\ UNCHANGED <<handler, invocations, request, user_prompt, prompt, attempt,
                   backoff_time, response_payload, statusCode, sleeps,
                   attemptText, failedAttempts, outcome, s3_object, posted, study>>

\* Step 2 of the handlers with the module cache
GatherCached == handler \in CachingHandlers /\ Gather(handler)

\* Step 2 of claude_final_prompt.py
GatherUncached == handler \notin CachingHandlers /\ Gather(handler)

\* ------------------------------------------- retrieval and prompt assembly
\* text the retrieve_and_generate call can return
RetrievedTexts == {<<"r">>}

\* the query sent to the retrieval service
RetrievalQuery(h, query) ==
    IF h = "lambda"
    THEN <<"Here is an issue description: ">> \o query
            \o <<". Check for relevant solutions or rules.">>
    ELSE query

AdditionalContent(text) == <<"\nAdditional KB Content:\n">> \o text \o <<"\n">>

PrependRetrieved(blob, text) == AdditionalContent(text) \o blob

\* `relevant_knowledge += f"\nAdditional KB Content:\n{additional_kb_content}\n"`
AppendRetrieved(blob, text) == blob \o AdditionalContent(text)

KnowledgeSection(blob) ==
    <<"\n\nRelevant Knowledge Base Content:\n">> \o blob

\* Step 4: the prompt of each handler file
BuildPrompt(h, query, blob) ==
    CASE h \in {"final_lambda", "lambda_slack"} ->
            IF blob # <<>>
            THEN <<"\n\nHuman: ">> \o query \o KnowledgeSection(blob)
                    \o <<"\n\nAssistant:">>
            ELSE <<"\n\nHuman: ">> \o query \o <<"\n\nAssistant:">>
      [] h = "lambda" ->
            IF blob # <<>>
            THEN <<"\n\nHuman: Here is an issue description: ">> \o query
                    \o KnowledgeSection(blob) \o <<"\n\nAssistant:">>
            ELSE <<"\n\nHuman: ">> \o query \o <<"\n\nAssistant:">>
      [] h = "claude_final_prompt" ->
            <<"\nYou are an intelligent assistant that helps users with their queries based on the provided context.\nGiven the user query and relevant knowledge base content, generate a detailed and helpful response.\n\nUser Query: ">>
                \o query \o KnowledgeSection(blob) \o <<"\n\nAssistant:">>

\* Steps 3 and 4: the retrieval call, whose failure is logged and ignored, then
\* the prompt and the initial values of the retry loop
RetrieveAndBuildPrompt ==
    /\ pc = "retrieve"
    /\ \E ok \in BOOLEAN : \E text \in RetrievedTexts :
         LET blob == IF ok THEN AppendRetrieved(relevant_knowledge, text)
                     ELSE relevant_knowledge
         IN
         /\ relevant_knowledge' = blob
         /\ prompt' = BuildPrompt(handler, user_prompt, blob)
         /\ faults' = IF ok THEN faults ELSE faults \cup {"retrieval"}
    /\ calls' = [calls EXCEPT !.retrieve = @ + 1]
    /\ attempt' = 0
    /\ backoff_time' = initial_backoff
    /\ response_payload' = <<>>
    /\ pc' = "generate"
    /\ UNCHANGED <<handler, invocations, knowledge_base_cache, request, user_prompt,
                   statusCode, sleeps, fetched, scanned, attemptText,
                   failedAttempts, outcome, s3_object, posted, study>>

\* ------------------------------------------------------------ generation
\* an event of the response stream: a chunk with a text delta, or any other event
EventSet ==
    {[kind |-> "text_delta", text |-> <<"x">>],
     [kind |-> "other", text |-> <<>>]}

\* what one call can deliver before the stream ends or raises
Streams == UNION {[1..n -> EventSet] : n \in 0..MaxEvents}

RECURSIVE AccumulatePrepending(_, _)
AccumulatePrepending(payload, stream) ==
    IF stream = <<>> THEN payload
    ELSE AccumulatePrepending(
            IF Head(stream).kind = "text_delta"
            THEN Head(stream).text \o payload ELSE payload,
            Tail(stream))

\* the loop over bedrock_response['body']: response_payload += delta text
RECURSIVE Accumulate(_, _)
Accumulate(payload, stream) ==
    IF stream = <<>> THEN payload
    ELSE Accumulate(
            IF Head(stream).kind = "text_delta"
            THEN payload \o Head(stream).text ELSE payload,
            Tail(stream))

Sentinel == <<"No response generated by the model.">>

ErrorText == <<"Error generating response.">>

\* `if not response_payload` after the retry loop
FinalPayload(payload) == IF payload = <<>> THEN Sentinel ELSE payload

RetryAllowedEarly(a) == a < max_retries - 2

\* `if attempt < max_retries - 1` in the except branch
RetryAllowed(a) == a < max_retries - 1

NextBackoffConstant(b) == b

NextBackoffLinear(b) == b + 2

\* `backoff_time *= 2`
NextBackoff(b) == b * 2

NoBreak == "generate"

\* `break` after a stream that ended without error: on to the result write
BreakTo == "write_s3"

\* response_payload when an attempt starts: the retry loop does not reset it
PayloadAtAttempt(payload) == payload

\* the variables the generation step reads and writes, as one record
GenState ==
    [pc |-> pc, attempt |-> attempt, backoff_time |-> backoff_time,
     response_payload |-> response_payload, sleeps |-> sleeps,
     statusCode |-> statusCode, generate |-> calls.generate,
     attemptText |-> attemptText, failedAttempts |-> failedAttempts,
     outcome |-> outcome]

\* Step 5 of final_lambda.py, lambda-slack.py and lambda.py: one pass of the
\* retry loop on a call that delivers `stream` and then ends (ok) or raises;
\* on success the code up to the result write
RetryStep(g, stream, ok) ==
    LET acc == Accumulate(PayloadAtAttempt(g.response_payload), stream)
        called == [g EXCEPT !.generate = @ + 1]
    IN  IF ok
        THEN [called EXCEPT !.response_payload = FinalPayload(acc),
                            !.attemptText = Accumulate(<<>>, stream),
                            !.outcome = "Success",
                            !.pc = BreakTo]
        ELSE IF RetryAllowed(g.attempt)
        THEN [called EXCEPT !.response_payload = acc,
                            !.attemptText = <<>>,
                            !.sleeps = Append(@, g.backoff_time),
                            !.backoff_time = NextBackoff(@),
                            !.attempt = @ + 1,
                            !.failedAttempts = @ + 1]
        ELSE [called EXCEPT !.response_payload = acc,
                            !.attemptText = <<>>,
                            !.failedAttempts = @ + 1,
                            !.outcome = "Exhausted",
                            !.pc = "returned",
                            !.statusCode = 500]

\* Step 5 of claude_final_prompt.py: one call, whose failure becomes a text
OnceStep(g, stream, ok) ==
    LET called == [g EXCEPT !.generate = @ + 1, !.pc = "post_webhook"]
    IN  IF ok
        THEN [called EXCEPT !.response_payload = Accumulate(@, stream),
                            !.attemptText = Accumulate(<<>>, stream),
                            !.outcome = "Success"]
        ELSE [called EXCEPT !.response_payload = ErrorText,
                            !.attemptText = <<>>,
                            !.failedAttempts = @ + 1,
                            !.outcome = "Exhausted"]

GenStep(h, g, stream, ok) ==
    IF h \in RetryingHandlers THEN RetryStep(g, stream, ok)
    ELSE OnceStep(g, stream, ok)

\* the handler is about to call the streaming endpoint
Generating(h, g) ==
    /\ g.pc = "generate"
    /\ h \in RetryingHandlers => g.attempt < max_retries

Generate(h) ==
    /\ Generating(h, GenState)
    /\ \E stream \in Streams : \E ok \in BOOLEAN :
         \E g \in {GenStep(h, GenState, stream, ok)} :
         /\ pc' = g.pc
         /\ attempt' = g.attempt
         /\ backoff_time' = g.backoff_time
         /\ response_payload' = g.response_payload
         /\ sleeps' = g.sleeps
         /\ statusCode' = g.statusCode
         /\ calls' = [calls EXCEPT !.generate = g.generate]
         /\ attemptText' = g.attemptText
         /\ failedAttempts' = g.failedAttempts
         /\ outcome' = g.outcome
    /\ faults' = {}
    /\ UNCHANGED <<handler, invocations, knowledge_base_cache, request, user_prompt,
                   relevant_knowledge, prompt, fetched, scanned, s3_object,
                   posted, study>>

GenerationAttempt == handler \in RetryingHandlers /\ Generate(handler)

GenerateOnce == handler \notin RetryingHandlers /\ Generate(handler)

\* ----------------------------------------------------------------- sinks
\* the ticket number of lambda.py is one opaque piece of text
TicketNumber == <<"jira_ticket_number">>

ResultKey(h, query) ==
    <<"destination/response-">> \o (IF h = "lambda" THEN TicketNumber ELSE query)
        \o <<".json">>

\* the object put_object stores: its key and the fields of its JSON body
ResultObject(h, query, payload) ==
    IF h = "lambda"
    THEN [Key |-> ResultKey(h, query), jira_ticket_number |-> TicketNumber,
          response |-> payload]
    ELSE [Key |-> ResultKey(h, query), prompt |-> query, response |-> payload]

SlackText(query, payload) ==
    <<"*Prompt:* ">> \o query \o <<"\n*Response:* ">> \o payload

DeliveryStatusIgnored(ok) == IF ok THEN 200 ELSE 200

\* the status a delivery step returns with: 500 from its except branch
DeliveryStatus(ok) == IF ok THEN 200 ELSE 500

AfterWriteSkipPost(h, ok) == IF ok THEN "returned" ELSE "returned"

AfterWritePostAnyway(h, ok) ==
    IF h = "final_lambda" THEN "post_webhook" ELSE "returned"

\* where the handler goes after put_object: final_lambda.py on to the webhook
\* when the write succeeded, every other case returns
AfterWrite(h, ok) ==
    IF ok /\ h = "final_lambda" THEN "post_webhook" ELSE "returned"

\* Step 6: put_object of the result; final_lambda.py goes on to the webhook,
\* lambda-slack.py and lambda.py return
WriteResult ==
    /\ pc = "write_s3"
    /\ calls' = [calls EXCEPT !.put = @ + 1]
    /\ \E ok \in BOOLEAN :
         /\ s3_object' = IF ok
                         THEN Append(s3_object,
                                ResultObject(handler, user_prompt, response_payload))
                         ELSE s3_object
         /\ pc' = AfterWrite(handler, ok)
         /\ statusCode' = IF AfterWrite(handler, ok) = "returned"
                          THEN DeliveryStatus(ok) ELSE statusCode
    /\ UNCHANGED <<handler, invocations, knowledge_base_cache, request, user_prompt,
                   relevant_knowledge, prompt, attempt, backoff_time,
                   response_payload, sleeps, fetched, scanned, attemptText,
                   failedAttempts, outcome, posted, faults, study>>

\* the POST of slack_response to response_url
PostWebhook ==
    /\ pc = "post_webhook"
    /\ calls' = [calls EXCEPT !.post = @ + 1]
    /\ \E ok \in BOOLEAN :
         IF ok
         THEN /\ posted' = Append(posted, SlackText(user_prompt, response_payload))
              /\ statusCode' = DeliveryStatus(TRUE)
         ELSE /\ statusCode' = DeliveryStatus(FALSE)
              /\ UNCHANGED posted
    /\ pc' = "returned"
    /\ UNCHANGED <<handler, invocations, knowledge_base_cache, request, user_prompt,
                   relevant_knowledge, prompt, attempt, backoff_time,
                   response_payload, sleeps, fetched, scanned, attemptText,
                   failedAttempts, outcome, s3_object, faults, study>>

Next ==
    \/ ParseRequest
    \/ GatherCached
    \/ GatherUncached
    \/ RetrieveAndBuildPrompt
    \/ GenerationAttempt
    \/ GenerateOnce
    \/ WriteResult
    \/ PostWebhook

Spec == Init /\ [][Next]_vars

\* ------------------------------------------- knowledge gathering, alone
\* Step 2 as a function of its arguments: any handler, cache, query and store
\* behaviour, with documents that match, that do not, and that do not decode.

\* no invocation is running: the handler variables as the module load leaves them
NoInvocation ==
    /\ handler = "final_lambda"
    /\ pc = "idle"
    /\ invocations = 0
    /\ knowledge_base_cache = None
    /\ request = NoEvent
    /\ user_prompt = <<>>
    /\ relevant_knowledge = <<>>
    /\ prompt = <<>>
    /\ attempt = 0
    /\ backoff_time = initial_backoff
    /\ response_payload = <<>>
    /\ statusCode = 0
    /\ calls = NoCalls
    /\ sleeps = <<>>
    /\ fetched = <<>>
    /\ scanned = <<>>
    /\ attemptText = <<>>
    /\ failedAttempts = 0
    /\ outcome = "None"
    /\ s3_object = <<>>
    /\ posted = <<>>
    /\ faults = {}

handlerVars == <<handler, pc, invocations, knowledge_base_cache, request,
                 user_prompt, relevant_knowledge, prompt, attempt, backoff_time,
                 response_payload, statusCode, calls, sleeps, fetched, scanned,
                 attemptText, failedAttempts, outcome, s3_object, posted, faults>>

\* the objects of the bucket: DocSet and one more that holds both queries
StoredObjects == DocSet \cup {[Key |-> <<"k3">>, Body |-> <<"c", "A", "b">>]}

StoredListings == UNION {[1..n -> StoredObjects] : n \in 0..MaxStored}

\* the module cache on entry: None, or the list an earlier invocation of
\* lambda.py left behind
CacheSet == {None, List(<<[Key |-> <<"k3">>, Content |-> <<"c", "A", "b">>]>>)}

NotApplied == [of |-> "nothing"]

InitKnowledge ==
    /\ NoInvocation
    /\ study \in {[of |-> "knowledge", h |-> h, cache |-> c, query |-> q,
                   listing |-> l, failAt |-> f, applied |-> FALSE,
                   result |-> NotApplied] :
                  <<h, c, q, l, f>> \in
                    UNION {Handlers \X CacheSet \X QuerySet \X {l} \X FailPoints(l) :
                           l \in StoredListings}}

ApplyGatherKnowledge ==
    /\ study.of = "knowledge"
    /\ ~study.applied
    /\ study' = [study EXCEPT
                   !.applied = TRUE,
                   !.result = GatherKnowledge(study.h, study.cache, study.query,
                                              study.listing, study.failAt)]
    /\ UNCHANGED handlerVars

NextKnowledge == ApplyGatherKnowledge

SpecKnowledge == InitKnowledge /\ [][NextKnowledge]_vars

\* ------------------------------------------------- one generation call, alone
\* The first call of Step 5 as a function of the handler, the query and what
\* the stream delivers, with fragments that differ so that their order shows.
StreamEvents ==
    EventSet \cup {[kind |-> "text_delta", text |-> <<"y">>],
                   [kind |-> "text_delta", text |-> <<>>]}

StreamSet == UNION {[1..n -> StreamEvents] : n \in 0..MaxEvents}

\* the result of the first call and the text of slack_response built from it
FirstCall(h, query, stream, ok) ==
    LET g == GenStep(h, [GenState EXCEPT !.pc = "generate"], stream, ok)
    IN  [payload |-> g.response_payload,
         outcome |-> g.outcome,
         generate |-> g.generate,
         text |-> IF h \in SlackHandlers
                  THEN SlackText(query, g.response_payload) ELSE <<>>]

InitStream ==
    /\ NoInvocation
    /\ study \in {[of |-> "stream", h |-> h, query |-> q, stream |-> st,
                   ok |-> ok, applied |-> FALSE, result |-> NotApplied] :
                  <<h, q, st, ok>> \in
                    Handlers \X QuerySet \X StreamSet \X BOOLEAN}

ApplyFirstCall ==
    /\ study.of = "stream"
    /\ ~study.applied
    /\ study' = [study EXCEPT
                   !.applied = TRUE,
                   !.result = FirstCall(study.h, study.query, study.stream,
                                        study.ok)]
    /\ UNCHANGED handlerVars

NextStream == ApplyFirstCall

SpecStream == InitStream /\ [][NextStream]_vars

\* ------------------------------------------------ the handlers side by side
\* Every handler file run on the same query, the same store behaviour and the
\* same sequence of generation-endpoint outcomes: Step 2 from an empty cache,
\* then Step 5 call by call, a handler that has left its loop taking no part.
InitSideBySide ==
    /\ NoInvocation
    /\ study \in {[of |-> "side_by_side", query |-> q, listing |-> l,
                   failAt |-> f, gathered |-> FALSE,
                   cache |-> [h \in Handlers |-> None],
                   run |-> [h \in Handlers |-> [GenState EXCEPT !.pc = "generate"]]] :
                  <<q, l, f>> \in
                    UNION {QuerySet \X {l} \X FailPoints(l) : l \in Listings}}

GatherSideBySide ==
    /\ study.of = "side_by_side"
    /\ ~study.gathered
    /\ study' = [study EXCEPT
                   !.gathered = TRUE,
                   !.cache = [h \in Handlers |->
                                GatherKnowledge(h, None, study.query,
                                                study.listing, study.failAt).cache]]
    /\ UNCHANGED handlerVars

GenerateSideBySide ==
    /\ study.of = "side_by_side"
    /\ study.gathered
    /\ \E h \in Handlers : Generating(h, study.run[h])
    /\ \E stream \in Streams : \E ok \in BOOLEAN :
         study' = [study EXCEPT
                     !.run = [h \in Handlers |->
                                IF Generating(h, study.run[h])
                                THEN GenStep(h, study.run[h], stream, ok)
                                ELSE study.run[h]]]
    /\ UNCHANGED handlerVars

NextSideBySide ==
    \/ GatherSideBySide
    \/ GenerateSideBySide

SpecSideBySide == InitSideBySide /\ [][NextSideBySide]_vars

\* ================================================================ claims
RECURSIVE SumSeq(_)
SumSeq(q) == IF q = <<>> THEN 0 ELSE Head(q) + SumSeq(Tail(q))

IsSuffix(s, t) ==
    /\ Len(s) <= Len(t)
    /\ SubSeq(t, Len(t) - Len(s) + 1, Len(t)) = s

\* the knowledge-gathering phase of the current invocation is over
Gathered == pc = "retrieve" \/ calls.retrieve > 0

\* C1: in the retrying handlers a successful generation yields exactly the
\* fragments of the successful attempt (the sentinel when there are none);
\* fragments a failed attempt delivered before its error are not in the result.
C1_ResultFromOneAttempt ==
    (handler \in RetryingHandlers /\ outcome = "Success")
        => response_payload = FinalPayload(attemptText)

\* C2: the retry loop calls the streaming endpoint at most 4 times in an
\* invocation, and generation is Exhausted only after exactly 4 failed attempts.
C2_AtMostFourAttempts ==
    handler \in RetryingHandlers =>
        /\ calls.generate <= 4
        /\ failedAttempts <= 4
        /\ (outcome = "Exhausted" => failedAttempts = 4 /\ calls.generate = 4)

C2_Witness ==
    /\ handler \in RetryingHandlers
    /\ outcome = "Exhausted"
    /\ calls.generate = 4
    /\ pc = "returned"

C4_SuccessEndsLoop ==
    [][(outcome = "Success" /\ invocations' = invocations)
          => (calls'.generate = calls.generate /\ sleeps' = sleeps)]_vars

C4_Witness ==
    /\ handler \in RetryingHandlers
    /\ outcome = "Success"
    /\ failedAttempts = 1
    /\ pc = "returned"

\* C5: in every handler, when the last permitted generation attempt raises a
\* service error the invocation returns 500 and no sink is invoked.
C5_FailureReaches500 ==
    outcome = "Exhausted" =>
        /\ calls.put = 0
        /\ calls.post = 0
        /\ pc = "returned"
        /\ statusCode = 500

\* C6: in every handler, when the successful attempt's stream has no text
\* fragment, the result handed to the sinks is the sentinel message.
C6_EmptyStreamGivesSentinel ==
    (outcome = "Success" /\ attemptText = <<>>) =>
        /\ response_payload = Sentinel
        /\ \A i \in 1..Len(s3_object) : s3_object[i].response = Sentinel
        /\ \A i \in 1..Len(posted) : posted[i] = SlackText(user_prompt, Sentinel)

\* C7: in the handlers with the module cache, the cache is None whenever the
\* knowledge-gathering phase is not running: after it, and when an invocation starts.
C7_CacheCleared ==
    handler \in CachingHandlers => knowledge_base_cache = None

\* C8: every invocation that gets to knowledge gathering lists the store itself
\* and scans exactly the documents the store returned to it.
C8_ScansOwnListing ==
    Gathered => (calls.list = 1 /\ scanned = fetched)

\* C9: in the chat-command handlers a request whose token is not the shared
\* secret is answered 400 with no call to any collaborator.
C9_BadTokenRejected ==
    (handler \in SlackHandlers /\ invocations > 0 /\ request.token = "bad") =>
        /\ pc = "returned"
        /\ statusCode = 400
        /\ calls = NoCalls
        /\ s3_object = <<>>
        /\ posted = <<>>

C9_Witness ==
    /\ handler \in SlackHandlers
    /\ invocations > 0
    /\ request.token = "bad"
    /\ request.response_url
    /\ pc = "returned"
    /\ statusCode = 400

\* a request with a required field missing, or a JSON body that does not decode
\* or is not an object
Malformed(h, e) ==
    CASE h \in SlackHandlers -> ~e.has_body \/ e.token = "absent" \/ ~e.response_url
      [] h = "lambda_slack" ->
            e.shape \in {"body_no_text", "body_bad_json", "body_not_object", "neither"}
      [] h = "lambda" -> ~e.has_ticket

\* C10: in every handler a malformed request is answered 400 before any call to
\* a collaborator; it ends neither in an exception nor in 500.
C10_MalformedGets400 ==
    (invocations > 0 /\ Malformed(handler, request)) =>
        /\ pc = "returned"
        /\ statusCode = 400
        /\ calls = NoCalls

\* C11: a service error of the document listing or fetch, or of the retrieval
\* call, does not end the invocation or set a status: the handler is on its way
\* to the generation call, with the prompt assembled once retrieval is over.
C11_KnowledgeFaultsRecovered ==
    faults # {} =>
        /\ pc \in {"retrieve", "generate"}
        /\ statusCode = 0
        /\ pc = "generate" =>
              /\ "\n\nAssistant:" \in {prompt[i] : i \in 1..Len(prompt)}
              /\ calls.generate = 0
              /\ ENABLED Generate(handler)

C11_Witness ==
    /\ faults = {"store", "retrieval"}
    /\ pc = "generate"
    /\ calls.get > 0

\* a delivery step was attempted and did not succeed
DeliveryFailed == calls.put > Len(s3_object) \/ calls.post > Len(posted)

\* C12: when the result write or the webhook POST fails, the invocation returns
\* 500, the failed delivery was attempted once and not retried, and the
\* generation endpoint has been called only by the attempts made before it.
C12_DeliveryFailureIs500 ==
    DeliveryFailed =>
        /\ pc = "returned"
        /\ statusCode = 500
        /\ calls.put <= 1
        /\ calls.post <= 1
        /\ (calls.put - Len(s3_object)) + (calls.post - Len(posted)) = 1
        /\ calls.generate = failedAttempts + (IF outcome = "Success" THEN 1 ELSE 0)

C12_Witness ==
    /\ handler = "final_lambda"
    /\ Len(s3_object) = 1
    /\ calls.post = 1
    /\ posted = <<>>
    /\ failedAttempts = 1

\* t[a+1 .. a+Len(s)] = s for some offset a
IsSubstring(s, t) ==
    \E a \in 0..Len(t) :
        /\ a + Len(s) <= Len(t)
        /\ \A j \in 1..Len(s) : t[a + j] = s[j]

RECURSIVE FragmentsOf(_)
FragmentsOf(docs) ==
    IF docs = <<>> THEN <<>> ELSE Fragment(Head(docs)) \o FragmentsOf(Tail(docs))

MatchesQuery(q, doc) == IsSubstring(LowerText(q), LowerText(doc.Content))

\* C13: for every query and every list of fetched and decoded documents, the
\* blob holds the fragment of a document iff the lowered query is a substring
\* of its lowered content, and the fragments are in the order of the documents.
C13_FilterIffSubstringInOrder ==
    (study.of = "knowledge" /\ study.applied) =>
        LET docs == study.result.scanned
            kept == SelectSeq(docs, LAMBDA d : MatchesQuery(study.query, d))
        IN  study.result.blob = FragmentsOf(kept)

\* the documents k3 ("cAb") and k1 ("aB") scanned in that order with the query
\* "Ab", which k1 matches only when case is ignored
C13_Witness ==
    /\ study.of = "knowledge"
    /\ study.applied
    /\ study.query = <<"A", "b">>
    /\ Len(study.result.scanned) = 2
    /\ study.result.scanned[1].Key = <<"k3">>
    /\ study.result.scanned[2].Key = <<"k1">>
    /\ study.result.blob = Fragment(study.result.scanned[1])
                              \o Fragment(study.result.scanned[2])

HasKnowledgeSection(p) ==
    \E i \in 1..Len(p) : p[i] = "\n\nRelevant Knowledge Base Content:\n"

\* p without the knowledge section that carries `blob`
WithoutSection(p, blob) ==
    LET sec == KnowledgeSection(blob)
        at == {i \in 1..Len(p) : /\ i + Len(sec) - 1 <= Len(p)
                                 /\ SubSeq(p, i, i + Len(sec) - 1) = sec}
    IN  IF at = {} THEN p
        ELSE LET i == CHOOSE j \in at : TRUE
             IN  SubSeq(p, 1, i - 1) \o SubSeq(p, i + Len(sec), Len(p))

\* C14: the prompt contains the knowledge section iff the blob is non-empty,
\* and without that section it is the prompt the handler builds for the same
\* query and an empty blob.
C14_SectionIffBlobNonEmpty ==
    prompt # <<>> =>
        /\ HasKnowledgeSection(prompt) <=> relevant_knowledge # <<>>
        /\ relevant_knowledge # <<>> =>
              WithoutSection(prompt, relevant_knowledge)
                 = BuildPrompt(handler, user_prompt, <<>>)

\* the texts of the first n events that carry a text delta, in arrival order
RECURSIVE DeltaText(_, _)
DeltaText(stream, n) ==
    IF n = 0 THEN <<>>
    ELSE DeltaText(stream, n - 1)
            \o (IF stream[n].kind = "text_delta" THEN stream[n].text ELSE <<>>)

FirstCallSucceeded == study.of = "stream" /\ study.applied /\ study.ok

ResultIsConcatenation ==
    LET text == DeltaText(study.stream, Len(study.stream))
    IN  /\ study.result.payload = text
        /\ study.h \in SlackHandlers =>
              study.result.text = <<"*Prompt:* ">> \o study.query
                                     \o <<"\n*Response:* ">> \o text

\* C15 as stated: whenever the first generation attempt succeeds, the result is
\* the concatenation in arrival order of the stream's text fragments, and the
\* text for the callback URL is "*Prompt:* " + Query + newline + "*Response:* "
\* + that result.
C15_Original == FirstCallSucceeded => ResultIsConcatenation

\* C15 amended: the same, when the stream carries at least one character of text.
C15_ResultIsConcatenation ==
    (FirstCallSucceeded /\ DeltaText(study.stream, Len(study.stream)) # <<>>)
        => ResultIsConcatenation

C15_Witness ==
    /\ FirstCallSucceeded
    /\ study.h = "final_lambda"
    /\ study.query = <<"c">>
    /\ Len(study.stream) = 2
    /\ study.stream[1].text = <<"y">>
    /\ study.stream[2].text = <<"x">>
    /\ study.result.text = <<"*Prompt:* ", "c", "\n*Response:* ", "y", "x">>

\* C16: no invocation ends in an uncaught exception; one that has ended has
\* returned 200, 400 or 500; one that has not ended can take a step, and the
\* steps that repeat (the generation calls) are bounded by max_retries.
C16_EveryInvocationReturnsAStatus ==
    /\ pc # "raised"
    /\ pc = "returned" => statusCode \in {200, 400, 500}
    /\ pc \notin {"idle", "returned", "raised"} => ENABLED Next
    /\ calls.generate <= max_retries

\* C17: given the same query, listing and generation outcomes, once every
\* handler has left Step 5 all four have made the same number of generation
\* calls with the same sleeps, have the same outcome and result, and have left
\* the document cache in the same state.
C17_HandlersAgree ==
    (/\ study.of = "side_by_side"
     /\ study.gathered
     /\ \A h \in Handlers : ~Generating(h, study.run[h])) =>
        \A h1, h2 \in Handlers :
            /\ study.run[h1].generate = study.run[h2].generate
            /\ study.run[h1].sleeps = study.run[h2].sleeps
            /\ study.run[h1].outcome = study.run[h2].outcome
            /\ study.run[h1].response_payload = study.run[h2].response_payload
            /\ study.cache[h1] = study.cache[h2]

\* the event of the current invocation carries no query text at all
NoQueryText ==
    \/ handler \in SlackHandlers /\ ~request.has_text
    \/ handler = "lambda" /\ request.source = "no_description"

\* C18: with an empty query (also from a chat request without a text field or a
\* ticket record without a description) every scanned document with non-empty
\* content has its fragment in the blob, one fragment per such document.
C18_EmptyQueryMatchesAll ==
    (pc = "retrieve" /\ (user_prompt = <<>> \/ NoQueryText)) =>
        /\ \A i \in 1..Len(scanned) :
              scanned[i].Content # <<>> =>
                 IsSubstring(Fragment(scanned[i]), relevant_knowledge)
        /\ Cardinality({i \in 1..Len(relevant_knowledge) :
                           relevant_knowledge[i] = "\nDocument: "})
              >= Cardinality({i \in 1..Len(scanned) : scanned[i].Content # <<>>})

C18_Witness ==
    /\ pc = "retrieve"
    /\ handler = "lambda"
    /\ request.source = "no_description"
    /\ Len(fetched) = 2
    /\ fetched[1].Content # <<>>
    /\ fetched[2].Content # <<>>

\* the retrieval call of the current invocation has returned or raised and no
\* generation call has been made yet
Retrieved == pc = "generate" /\ calls.generate = 0

\* C19: after the retrieval call the blob is the fragments of the matching
\* scanned documents, one per occurrence in the listing, followed by the
\* retrieved content block when the call succeeded and by nothing when it failed.
C19_RetrievedContentLast ==
    Retrieved =>
        LET kept == SelectSeq(scanned, LAMBDA d : MatchesQuery(user_prompt, d))
            rest == SubSeq(relevant_knowledge, Len(FragmentsOf(kept)) + 1,
                           Len(relevant_knowledge))
        IN  /\ Len(relevant_knowledge) >= Len(FragmentsOf(kept))
            /\ SubSeq(relevant_knowledge, 1, Len(FragmentsOf(kept)))
                  = FragmentsOf(kept)
            /\ IF "retrieval" \in faults
               THEN rest = <<>>
               ELSE /\ Len(rest) = 3
                    /\ rest[1] = "\nAdditional KB Content:\n"
                    /\ <<rest[2]>> \in RetrievedTexts
                    /\ rest[3] = "\n"

\* the same document listed twice, both fragments before the retrieved block
C19_Witness ==
    /\ Retrieved
    /\ "retrieval" \notin faults
    /\ Len(scanned) = 2
    /\ scanned[1] = scanned[2]
    /\ Len(relevant_knowledge) > 2 * Len(Fragment(scanned[1]))
    /\ relevant_knowledge[1] = "\nDocument: "
    /\ relevant_knowledge[Len(Fragment(scanned[1])) + 1] = "\nDocument: "

\* the store is asked in this application of Step 2
StoreConsulted ==
    /\ study.of = "knowledge"
    /\ study.applied
    /\ study.h \in CachingHandlers => study.cache.is_none

\* the objects of the listing whose get_object returned before the store raised
ObjectsGot ==
    IF study.failAt = 0 THEN <<>>
    ELSE IF study.failAt <= Len(study.listing)
    THEN SubSeq(study.listing, 1, study.failAt - 1)
    ELSE study.listing

\* the handler has a decoding for the bytes: UTF-8, or any bytes where the
\* single-byte fallback exists
Decodes(h, obj) ==
    \/ \A i \in 1..Len(obj.Body) : obj.Body[i] # "xE9"
    \/ h = "claude_final_prompt"

\* C20: an object whose bytes cannot be decoded contributes no document and no
\* fragment, and every object got from the store, those after it included, is
\* fetched, decoded and scanned.
C20_UndecodableSkipped ==
    StoreConsulted =>
        LET good == SelectSeq(ObjectsGot, LAMBDA o : Decodes(study.h, o))
            docs == study.result.fetched
        IN  /\ Len(docs) = Len(good)
            /\ \A i \in 1..Len(good) : docs[i].Key = good[i].Key
            /\ study.result.scanned = docs
            /\ \A i \in 1..Len(ObjectsGot) :
                  ~Decodes(study.h, ObjectsGot[i]) =>
                     \A j \in 1..Len(study.result.blob) :
                        <<study.result.blob[j]>> # ObjectsGot[i].Key

\* k2 does not decode, k3 after it is fetched and matches the query "c"
C20_Witness ==
    /\ StoreConsulted
    /\ study.h = "final_lambda"
    /\ study.query = <<"c">>
    /\ Len(study.listing) = 2
    /\ study.listing[1].Key = <<"k2">>
    /\ study.listing[2].Key = <<"k3">>
    /\ study.failAt = 3
    /\ Len(study.result.fetched) = 1
    /\ study.result.blob = Fragment(study.result.fetched[1])

\* the document the single-byte decoding of all of an object's bytes gives
Latin1Document(obj) == [Key |-> obj.Key, Content |-> DecodeLatin1(obj.Body)]

\* C21: every object got from the store whose bytes are not UTF-8 is scanned
\* as the document its stored bytes decode to in the single-byte encoding, and
\* when that content matches the query its fragment, with that content, is in
\* the blob.
C21_FallbackDecodesStoredBytes ==
    StoreConsulted =>
        \A i \in 1..Len(ObjectsGot) :
            (\E k \in 1..Len(ObjectsGot[i].Body) : ObjectsGot[i].Body[k] = "xE9") =>
                LET doc == Latin1Document(ObjectsGot[i])
                IN  /\ \E j \in 1..Len(study.result.scanned) :
                          study.result.scanned[j] = doc
                    /\ MatchesQuery(study.query, doc) =>
                          IsSubstring(Fragment(doc), study.result.blob)

\* a step of the current invocation makes a call of the phase
StoreCall == calls'.list # calls.list \/ calls'.get # calls.get
RetrievalCall == calls'.retrieve # calls.retrieve
GenerationCall == calls'.generate # calls.generate
SinkCall == calls'.put # calls.put \/ calls'.post # calls.post

PhaseOrder ==
    invocations' = invocations =>
        /\ StoreCall =>
              /\ calls.retrieve = 0 /\ calls.generate = 0
              /\ calls.put = 0 /\ calls.post = 0
              /\ ~RetrievalCall /\ ~GenerationCall /\ ~SinkCall
        /\ RetrievalCall =>
              /\ calls.retrieve = 0 /\ calls.generate = 0
              /\ calls.put = 0 /\ calls.post = 0
              /\ ~GenerationCall /\ ~SinkCall
        /\ GenerationCall =>
              /\ calls.retrieve = 1
              /\ calls.put = 0 /\ calls.post = 0
              /\ outcome = "None"
              /\ ~SinkCall
        /\ sleeps' # sleeps => GenerationCall
        /\ SinkCall =>
              /\ calls.retrieve = 1
              /\ calls.generate >= 1
              /\ outcome \in {"Success", "Exhausted"}
              /\ outcome' = outcome
              /\ calls'.list = calls.list /\ calls'.get = calls.get

\* C22: within one invocation every step makes calls of one phase only, in the
\* order store list/get, retrieval, generation attempts with their sleeps,
\* sinks: no generation call before the retrieval call, no sink call before
\* generation has its outcome, and no call of an earlier phase afterwards.
C22_CallsInPhaseOrder == [][PhaseOrder]_vars

C22_Witness ==
    /\ handler = "final_lambda"
    /\ calls.list = 1
    /\ calls.get = 2
    /\ calls.retrieve = 1
    /\ calls.generate = 2
    /\ sleeps = <<2>>
    /\ calls.put = 1
    /\ calls.post = 1
    /\ statusCode = 200

\* C23: in final_lambda the webhook is called only after the result write
\* succeeded; when the write fails the invocation has returned 500 and nothing
\* was sent to the callback URL, although generation succeeded.
C23_PostOnlyAfterWrite ==
    handler = "final_lambda" =>
        /\ calls.post > 0 => calls.put = 1 /\ Len(s3_object) = 1
        /\ (calls.put > 0 /\ s3_object = <<>>) =>
              /\ pc = "returned"
              /\ statusCode = 500
              /\ calls.post = 0
              /\ posted = <<>>
              /\ outcome = "Success"

C23_Witness ==
    /\ handler = "final_lambda"
    /\ outcome = "Success"
    /\ calls.put = 1
    /\ s3_object = <<>>
    /\ statusCode = 500
    /\ posted = <<>>

\* the sinks of each handler file
WritesObject(h) == h \in {"final_lambda", "lambda_slack", "lambda"}
PostsWebhook(h) == h \in {"final_lambda", "claude_final_prompt"}

\* C24: an invocation has status 200 only when it has returned with every sink
\* of its handler called exactly once and successful, and no other sink called.
C24_Status200MeansDelivered ==
    statusCode = 200 =>
        /\ pc = "returned"
        /\ calls.put = (IF WritesObject(handler) THEN 1 ELSE 0)
        /\ Len(s3_object) = calls.put
        /\ calls.post = (IF PostsWebhook(handler) THEN 1 ELSE 0)
        /\ Len(posted) = calls.post

C24_Witness ==
    /\ statusCode = 200
    /\ handler = "final_lambda"
    /\ Len(s3_object) = 1
    /\ Len(posted) = 1
    /\ failedAttempts = 3

\* get_object of an object of the listing raised the service error
FailedPartWay ==
    /\ StoreConsulted
    /\ study.failAt \in 1..Len(study.listing)

\* C25: when the store raises part-way through the listing loop, the documents
\* got before the error are scanned and their matching fragments are the blob;
\* the failing object and those after it are neither fetched nor scanned.
C25_PartialListingKept ==
    FailedPartWay =>
        LET before == SubSeq(study.listing, 1, study.failAt - 1)
            good == SelectSeq(before, LAMBDA o : Decodes(study.h, o))
            docs == study.result.scanned
        IN  /\ Len(docs) = Len(good)
            /\ \A i \in 1..Len(good) :
                  /\ docs[i].Key = good[i].Key
                  /\ Utf8Decodable(good[i].Body) => docs[i].Content = good[i].Body
            /\ study.result.blob
                  = FragmentsOf(SelectSeq(docs, LAMBDA d : MatchesQuery(study.query, d)))
            /\ study.result.get = study.failAt
            /\ study.result.failed

\* k3, then the get of k1 fails, with k3 listed again after it: one fragment
C25_Witness ==
    /\ FailedPartWay
    /\ study.h = "final_lambda"
    /\ study.query = <<"c">>
    /\ Len(study.listing) = 3
    /\ study.listing[1].Key = <<"k3">>
    /\ study.listing[3].Key = <<"k3">>
    /\ study.failAt = 2
    /\ Len(study.result.scanned) = 1
    /\ study.result.blob = Fragment(study.result.scanned[1])

\* C26: in the handlers with the retry loop the Exhausted outcome comes with
\* exactly the three sleeps 2, 4, 8 (14 in total) and four generation calls, so
\* none after the 4th failure; and in every handler a run that has its outcome
\* has slept one time less than it has called the generation endpoint.
C26_ThreeSleepsWhenExhausted ==
    /\ (handler \in RetryingHandlers /\ outcome = "Exhausted") =>
          /\ sleeps = <<2, 4, 8>>
          /\ SumSeq(sleeps) = 14
          /\ calls.generate = 4
          /\ pc = "returned"
    /\ outcome # "None" => Len(sleeps) = calls.generate - 1
    /\ (outcome = "None" /\ pc = "generate") => Len(sleeps) = calls.generate

C26_Witness ==
    /\ handler = "lambda"
    /\ outcome = "Exhausted"
    /\ Len(sleeps) = 3
    /\ failedAttempts = 4
    /\ statusCode = 500

====
